---- MODULE Spec2Model ----
(***************************************************************************)
(* A model of the reconciliation core of pwa_converter.py: the pipeline    *)
(* save_to_excel runs over the parsed records,                             *)
(*   _prepare_dataframe -> _build_analyzed_data -> kept marking,           *)
(* with _closest_pair_indices and _average_pair_rows as the operators the  *)
(* pipeline steps apply.                                                   *)
(*                                                                         *)
(* Encoding.  A cell of the data frame is an integer: a number >= 0 is a   *)
(* numeric cell, None is the null cell (Python None / NaN), TextCell(n) is *)
(* a string that is not a number.  Patient ids, scan dates and scan times  *)
(* are strings in the program; the model keeps only their order (the order *)
(* sort_values compares them by), as integers, and to_datetime gives the   *)
(* calendar day a scan date string parses to.  A source file name is the   *)
(* pair <<prefix, serial>> of its stem before and after the first "_".     *)
(* A record index is the pandas label: 0-based, so row i of df is df[i+1]. *)
(***************************************************************************)
EXTENDS Integers, Sequences, FiniteSets, TLC

\* ------------------------------------------------------------------ bounds

\* The largest number of input records (PDF files) of one run.
MaxRecords == 3

\* The scans of the one patient in the runs that average and cross-check a pair.
MaxScans == 2

\* The patients of a run of main.
MaxPatients == 2

\* ------------------------------------------------------- program constants

\* Python's None / pandas NaN: the null cell.
None == -1

\* float("inf"), the initial min_distance and min_diastolic_diff.
inf == -2

\* The two messages that take the place of the patient id in a special row.
\* Only their order matters: "Not recognized ..." < "Recognized as ...".
UNRECOGNIZED_REPORT_MESSAGE == 101

CLINICAL_REPORT_MESSAGE == 102

\* The module-level selector; save_to_excel always passes it.
ANALYSIS_MODE == 2

\* The columns of a row that the model keeps, by their role.
\*   pid  "Patient ID"                 date "Scan Date"     time "Scan Time"
\*   pti  "PTI Diastolic (mmHg.s/min)"
\*   sys  "Peripheral Systolic Pressure (mmHg)"
\*   dia  "Peripheral Diastolic Pressure (mmHg)"
\*   mean "Peripheral Mean Pressure (mmHg)"
\*   file   "Source File"              gender "Gender"
\*   aosys  "Aortic Systolic Pressure (mmHg)"
\*   aodia  "Aortic Diastolic Pressure (mmHg)"
\* COLUMNS[2:], the columns a special row loses.
MeasurementColumns ==
    {"date", "time", "pti", "sys", "dia", "mean", "gender", "aosys", "aodia"}

\* ---------------------------------------------------------------- helpers

IsNumber(v) == v >= 0

\* The n-th string that is not a number ("Male", "1.2.3", ...).
TextCell(n) == 0 - 10 - n

IsText(v) == v <= 0 - 10

\* _derive_patient_id: pdf_path.stem.split("_", 1)[0]
derive_patient_id(file) == file[1]

\* pd.to_numeric(..., errors="coerce"): a numeric cell stays, anything else
\* becomes NaN.
to_numeric(v) == IF IsNumber(v) THEN v ELSE None

\* a < b on floats where either side may be float("inf").
FloatLess(a, b) == a # inf /\ (b = inf \/ a < b)

Abs(x) == IF x < 0 THEN 0 - x ELSE x

Indices(frame) == 0 .. (Len(frame) - 1)

Row(frame, i) == frame[i + 1]

RECURSIVE SeqSum(_)
SeqSum(s) == IF s = <<>> THEN 0 ELSE Head(s) + SeqSum(Tail(s))

\* An ascending sequence of the integers of a finite set.
RECURSIVE Ascending(_)
Ascending(S) ==
    IF S = {} THEN <<>>
    ELSE LET m == CHOOSE x \in S : \A y \in S : x <= y
         IN <<m>> \o Ascending(S \ {m})

\* ------------------------------------------------------ _prepare_dataframe

\* df["Special Row"] = df["Patient ID"].isin({CLINICAL..., UNRECOGNIZED...})
SpecialRow(r) ==
    r.pid \in {CLINICAL_REPORT_MESSAGE, UNRECOGNIZED_REPORT_MESSAGE}

\* One row of the frame built from an input record: the added "Special Row"
\* column, and df.loc[df["Special Row"], COLUMNS[2:]] = None.
FrameRow(r) ==
    LET sp == SpecialRow(r)
        cell(c) == IF sp /\ c \in MeasurementColumns THEN None ELSE r[c]
    IN [pid |-> r.pid, date |-> cell("date"), time |-> cell("time"),
        pti |-> cell("pti"), sys |-> cell("sys"), dia |-> cell("dia"),
        mean |-> cell("mean"), file |-> r.file, gender |-> cell("gender"),
        aosys |-> cell("aosys"), aodia |-> cell("aodia"), special |-> sp,
        recording |-> None, analyed |-> "None"]

\* One sort key of sort_values, nulls last (na_position="last").
KeyCmp(x, y) ==
    IF x = y THEN 0
    ELSE IF x = None THEN 1
    ELSE IF y = None THEN 0 - 1
    ELSE IF x < y THEN 0 - 1 ELSE 1

\* The comparison without its last key, the scan time.
SortBefore_WithoutTime(a, b) ==
    LET cs == IF a.special = b.special THEN 0
              ELSE IF b.special THEN 0 - 1 ELSE 1
        cp == KeyCmp(a.pid, b.pid)
        cd == KeyCmp(a.date, b.date)
    IN IF cs # 0 THEN cs < 0
       ELSE IF cp # 0 THEN cp < 0
       ELSE cd < 0

\* a sorts strictly before b under
\* by=["Special Row", "Patient ID", "Scan Date", "Scan Time"].
SortBefore(a, b) ==
    LET cs == IF a.special = b.special THEN 0
              ELSE IF b.special THEN 0 - 1 ELSE 1
        cp == KeyCmp(a.pid, b.pid)
        cd == KeyCmp(a.date, b.date)
        ct == KeyCmp(a.time, b.time)
    IN IF cs # 0 THEN cs < 0
       ELSE IF cp # 0 THEN cp < 0
       ELSE IF cd # 0 THEN cd < 0
       ELSE ct < 0

\* r placed into the sorted s after every row that does not sort after it.
RECURSIVE InsertSorted(_, _)
InsertSorted(s, r) ==
    IF s = <<>> THEN <<r>>
    ELSE IF SortBefore(r, Head(s)) THEN <<r>> \o s
    ELSE <<Head(s)>> \o InsertSorted(Tail(s), r)

\* df.sort_values(by=[four keys]): with several keys pandas sorts stably
\* (lexsort), so rows equal on the keys keep their order.
RECURSIVE sort_values(_)
sort_values(s) ==
    IF s = <<>> THEN <<>>
    ELSE InsertSorted(sort_values(SubSeq(s, 1, Len(s) - 1)), s[Len(s)])

\* subset=["Patient ID", "Scan Time", "PTI Diastolic (mmHg.s/min)"]
DedupKey(r) == <<r.pid, r.time, r.pti>>

\* drop_duplicates(subset=..., keep="first"): a row is dropped when an
\* earlier row has the same key; pandas compares null cells as equal.
RECURSIVE DropFrom(_, _)
DropFrom(s, seen) ==
    IF s = <<>> THEN <<>>
    ELSE IF DedupKey(Head(s)) \in seen THEN DropFrom(Tail(s), seen)
    ELSE <<Head(s)>> \o DropFrom(Tail(s), seen \cup {DedupKey(Head(s))})

\* drop_duplicates with keep="last": a row is dropped when a later row has
\* the same key.
drop_duplicates_KeepLast(s) ==
    LET later(k) == {DedupKey(s[j]) : j \in (k + 1) .. Len(s)}
        keep == Ascending({k \in 1 .. Len(s) : DedupKey(s[k]) \notin later(k)})
    IN [n \in 1 .. Len(keep) |-> s[keep[n]]]

\* drop_duplicates that forgets the keys it has seen each time it drops a
\* row: of three rows with one key the third survives.
RECURSIVE DropForgetting(_, _)
DropForgetting(s, seen) ==
    IF s = <<>> THEN <<>>
    ELSE IF DedupKey(Head(s)) \in seen THEN DropForgetting(Tail(s), {})
    ELSE <<Head(s)>> \o DropForgetting(Tail(s), seen \cup {DedupKey(Head(s))})

drop_duplicates_Forgetting(s) == DropForgetting(s, {})

drop_duplicates(s) == DropFrom(s, {})

IsSpecial(r) == r.special

IsRegular(r) == ~r.special

\* groupby("Patient ID").cumcount() + 1 over the regular rows; a special row
\* keeps Recording # = None.
Recording(frame, k) ==
    IF frame[k].special THEN None
    ELSE Cardinality({j \in 1 .. k : ~frame[j].special /\ frame[j].pid = frame[k].pid})

WithRecording(frame) ==
    [k \in 1 .. Len(frame) |-> [frame[k] EXCEPT !.recording = Recording(frame, k)]]

\* _prepare_dataframe: the frame, sorted, regular rows deduplicated, special
\* rows appended, re-sorted with a fresh 0..n-1 index, recording numbers set.
prepare_dataframe(recs) ==
    LET frame == [k \in 1 .. Len(recs) |-> FrameRow(recs[k])]
        sorted == sort_values(frame)
        regular_df == drop_duplicates(SelectSeq(sorted, IsRegular))
        joined == regular_df \o SelectSeq(sorted, IsSpecial)
    IN WithRecording(sort_values(joined))

\* --------------------------------------------------- _closest_pair_indices

\* fields == ["Peripheral Systolic Pressure (mmHg)"]
SystolicOnly(fields) == fields = <<"sys">>

\* Distance with the differences summed before squaring, (diff.sum()) ** 2:
\* differences of opposite sign cancel.
Distance_SumBeforeSquare(frame, i, j, fields) ==
    SeqSum([k \in 1 .. Len(fields) |->
              Row(frame, i)[fields[k]] - Row(frame, j)[fields[k]]])
    * SeqSum([k \in 1 .. Len(fields) |->
              Row(frame, i)[fields[k]] - Row(frame, j)[fields[k]]])

\* (diff.pow(2).sum()) ** 0.5 over the fields.  The model keeps the sum of
\* squares: the square root is strictly increasing, so < and == between two
\* distances are < and == between their sums of squares.
Distance(frame, i, j, fields) ==
    SeqSum([k \in 1 .. Len(fields) |->
              (Row(frame, i)[fields[k]] - Row(frame, j)[fields[k]])
            * (Row(frame, i)[fields[k]] - Row(frame, j)[fields[k]])])

\* DiastolicDiff with a missing diastolic value counted as no difference.
DiastolicDiff_NaNAsZero(frame, i, j, fields) ==
    LET di == to_numeric(Row(frame, i).dia)
        dj == to_numeric(Row(frame, j).dia)
    IN IF ~SystolicOnly(fields) THEN inf
       ELSE IF di # None /\ dj # None THEN Abs(di - dj) ELSE 0

\* diastolic_values.loc[i] - diastolic_values.loc[j], made absolute when it
\* is a number and float("inf") when either side is NaN; float("inf") too
\* when the fields are not systolic-only.
DiastolicDiff(frame, i, j, fields) ==
    LET di == to_numeric(Row(frame, i).dia)
        dj == to_numeric(Row(frame, j).dia)
    IN IF SystolicOnly(fields) /\ di # None /\ dj # None
       THEN Abs(di - dj) ELSE inf

\* The pairs in the order of the two nested loops over df.index.
RECURSIVE PairsFrom(_)
PairsFrom(idx) ==
    IF Len(idx) < 2 THEN <<>>
    ELSE [k \in 1 .. (Len(idx) - 1) |-> <<idx[1], idx[k + 1]>>]
         \o PairsFrom(Tail(idx))

\* PairStep with distance <= min_distance for distance < min_distance: a
\* later pair at the same distance replaces the earlier one.
PairStep_LateTieWins(st, frame, p, fields) ==
    LET distance == Distance(frame, p[1], p[2], fields)
        diastolic_diff == DiastolicDiff(frame, p[1], p[2], fields)
    IN IF st.min_distance = inf \/ distance <= st.min_distance
       THEN [min_distance |-> distance,
             min_diastolic_diff |-> diastolic_diff,
             closest_pair |-> p]
       ELSE st

\* One pass of the inner loop body: the running minimum after the pair p.
PairStep(st, frame, p, fields) ==
    LET distance == Distance(frame, p[1], p[2], fields)
        diastolic_diff == DiastolicDiff(frame, p[1], p[2], fields)
    IN IF FloatLess(distance, st.min_distance)
       THEN [min_distance |-> distance,
             min_diastolic_diff |-> diastolic_diff,
             closest_pair |-> p]
       ELSE IF distance = st.min_distance /\ SystolicOnly(fields)
                 /\ FloatLess(diastolic_diff, st.min_diastolic_diff)
       THEN [st EXCEPT !.min_diastolic_diff = diastolic_diff,
                       !.closest_pair = p]
       ELSE st

RECURSIVE PairLoop(_, _, _, _)
PairLoop(st, frame, ps, fields) ==
    IF ps = <<>> THEN st
    ELSE PairLoop(PairStep(st, frame, Head(ps), fields), frame, Tail(ps), fields)

\* _closest_pair_indices(df, fields), df being the rows of frame at the
\* labels idx (ascending); <<>> stands for the None it returns.
closest_pair_indices(frame, idx, fields) ==
    IF Len(idx) < 2 THEN <<>>
    ELSE PairLoop([min_distance |-> inf, min_diastolic_diff |-> inf,
                   closest_pair |-> <<>>],
                  frame, PairsFrom(idx), fields).closest_pair

\* ------------------------------------------------------ _average_pair_rows

\* AverageColumn with the missing numbers counted as 0 (a mean over fillna(0)).
AverageColumn_NullAsZero(pair_df, c) ==
    LET nums == SelectSeq([k \in 1 .. Len(pair_df) |-> to_numeric(pair_df[k][c])],
                          IsNumber)
        NotNull(v) == v # None
        non_null == SelectSeq([k \in 1 .. Len(pair_df) |-> pair_df[k][c]], NotNull)
    IN IF nums # <<>>
       THEN [sum |-> SeqSum(nums), count |-> Len(pair_df)]
       ELSE [sum |-> IF non_null # <<>> THEN non_null[1] ELSE None, count |-> 0]

\* AverageColumn falling back to the last cell that is not null.
AverageColumn_LastNonNull(pair_df, c) ==
    LET nums == SelectSeq([k \in 1 .. Len(pair_df) |-> to_numeric(pair_df[k][c])],
                          IsNumber)
        NotNull(v) == v # None
        non_null == SelectSeq([k \in 1 .. Len(pair_df) |-> pair_df[k][c]], NotNull)
    IN IF nums # <<>>
       THEN [sum |-> SeqSum(nums), count |-> Len(nums)]
       ELSE [sum |-> IF non_null # <<>> THEN non_null[Len(non_null)] ELSE None,
             count |-> 0]

\* One averaged cell.  With a number among the cells of the column it is
\* numeric_values.mean(), kept as the exact fraction sum/count of the numbers
\* present (count >= 1).  Otherwise count is 0 and sum holds the fall-back:
\* pair_df[column].dropna().iloc[0], the first cell that is not null in the
\* order of the pair, or None.
AverageColumn(pair_df, c) ==
    LET nums == SelectSeq([k \in 1 .. Len(pair_df) |-> to_numeric(pair_df[k][c])],
                          IsNumber)
        NotNull(v) == v # None
        non_null == SelectSeq([k \in 1 .. Len(pair_df) |-> pair_df[k][c]], NotNull)
    IN IF nums # <<>>
       THEN [sum |-> SeqSum(nums), count |-> Len(nums)]
       ELSE [sum |-> IF non_null # <<>> THEN non_null[1] ELSE None, count |-> 0]

\* _average_pair_rows(pair_df, AVERAGED_EXCLUDED_FIELDS): the columns in
\* the exclusion set (file, date, time, recording, analyed) are skipped.
average_pair_rows(pair_df) ==
    [pid |-> pair_df[1].pid,
     pti |-> AverageColumn(pair_df, "pti"),
     sys |-> AverageColumn(pair_df, "sys"),
     dia |-> AverageColumn(pair_df, "dia"),
     mean |-> AverageColumn(pair_df, "mean"),
     gender |-> AverageColumn(pair_df, "gender"),
     aosys |-> AverageColumn(pair_df, "aosys"),
     aodia |-> AverageColumn(pair_df, "aodia")]

\* ---------------------------------------------------- _build_analyzed_data

\* analysis_fields_by_mode.get(mode, analysis_fields_by_mode[1])
analysis_fields(m) ==
    IF m = 2 THEN <<"sys">> ELSE <<"sys", "dia", "mean">>

\* The keys of numeric_df.groupby("Patient ID"), in the order it yields them.
GroupKeys(frame) == Ascending({frame[k].pid : k \in 1 .. Len(frame)})

\* group.dropna(subset=analysis_fields).index: the labels of the rows of the
\* patient whose analysis fields are all numeric, ascending.
valid_group(frame, patient_id, fields) ==
    Ascending({i \in Indices(frame) :
                 /\ Row(frame, i).pid = patient_id
                 /\ \A k \in 1 .. Len(fields) :
                        to_numeric(Row(frame, i)[fields[k]]) # None})

SeqRange(s) == {s[k] : k \in 1 .. Len(s)}

\* manual_pairs.get(patient_id) handing out the tuple back to front.
ManualPair_Reversed(manual, patient_id) ==
    IF patient_id \in DOMAIN manual
    THEN [k \in 1 .. Len(manual[patient_id]) |->
             manual[patient_id][Len(manual[patient_id]) + 1 - k]]
    ELSE <<>>

\* manual_pairs.get(patient_id), <<>> standing for None.
ManualPair(manual, patient_id) ==
    IF patient_id \in DOMAIN manual THEN manual[patient_id] ELSE <<>>

\* OverrideAccepted taking an override only when it names every eligible row
\* of the patient: with a third eligible row the automatic search runs.
OverrideAccepted_WholeGroup(pair, valid) ==
    pair # <<>> /\ SeqRange(pair) = SeqRange(valid)

\* not (not pair or not all(index in valid_group.index for index in pair))
OverrideAccepted(pair, valid) ==
    pair # <<>> /\ \A k \in 1 .. Len(pair) : pair[k] \in SeqRange(valid)

\* The pair the loop body settles on for one patient; <<>> for `continue`.
ChosenPair(frame, m, manual, patient_id) ==
    LET fields == analysis_fields(m)
        valid == valid_group(frame, patient_id, fields)
        pair == ManualPair(manual, patient_id)
    IN IF OverrideAccepted(pair, valid) THEN pair
       ELSE closest_pair_indices(frame, valid, fields)

\* The loop over the groups, from the state acc = (analyzed_records,
\* kept_indices, used_pairs).
RECURSIVE GroupLoop(_, _, _, _, _)
GroupLoop(acc, frame, m, manual, keys) ==
    IF keys = <<>> THEN acc
    ELSE LET patient_id == Head(keys)
             pair == ChosenPair(frame, m, manual, patient_id)
             pair_df == [k \in 1 .. Len(pair) |-> Row(frame, pair[k])]
             averaged_record ==
                 [average_pair_rows(pair_df) EXCEPT !.pid = patient_id]
         IN IF pair = <<>>
            THEN GroupLoop(acc, frame, m, manual, Tail(keys))
            ELSE GroupLoop(
                   [analyzed_records |-> Append(acc.analyzed_records, averaged_record),
                    kept_indices |-> acc.kept_indices \cup SeqRange(pair),
                    used_pairs |-> [q \in DOMAIN acc.used_pairs \cup {patient_id} |->
                                      IF q = patient_id THEN pair
                                      ELSE acc.used_pairs[q]]],
                   frame, m, manual, Tail(keys))

\* _build_analyzed_data(df, mode, manual_pairs)
build_analyzed_data(frame, m, manual) ==
    GroupLoop([analyzed_records |-> <<>>, kept_indices |-> {},
               used_pairs |-> <<>>],
              frame, m, manual, GroupKeys(frame))

\* ------------------------------------------------ save_to_excel: kept flag

\* MarkAnalyed taking the labels for 1-based positions.
MarkAnalyed_ByPosition(frame, kept) ==
    [k \in 1 .. Len(frame) |->
        [frame[k] EXCEPT !.analyed = IF k \in kept THEN "Yes" ELSE "No"]]

\* MarkAnalyed that also blanks the recording number of the rows it keeps.
MarkAnalyed_BlanksRecording(frame, kept) ==
    [k \in 1 .. Len(frame) |->
        IF (k - 1) \in kept
        THEN [frame[k] EXCEPT !.analyed = "Yes", !.recording = None]
        ELSE [frame[k] EXCEPT !.analyed = "No"]]

\* MarkAnalyed followed by a sort that brings the kept rows to the front.
MarkAnalyed_KeptFirst(frame, kept) ==
    LET marked == [k \in 1 .. Len(frame) |->
                     [frame[k] EXCEPT !.analyed =
                         IF (k - 1) \in kept THEN "Yes" ELSE "No"]]
        Yes(r) == r.analyed = "Yes"
        No(r) == r.analyed = "No"
    IN SelectSeq(marked, Yes) \o SelectSeq(marked, No)

\* df["Analyed"] = "No"; df.loc[df.index.isin(kept_indices), "Analyed"] = "Yes"
MarkAnalyed(frame, kept) ==
    [k \in 1 .. Len(frame) |->
        [frame[k] EXCEPT !.analyed = IF (k - 1) \in kept THEN "Yes" ELSE "No"]]

IsKept(r) == r.analyed = "Yes"

\* kept_df = df[df["Analyed"] == "Yes"]
KeptFrame(frame) == SelectSeq(frame, IsKept)

\* -------------------------------------------------- _quality_check_summary

\* if diff > 5
DIFF_THRESHOLD == 5

\* diff_fields
diff_fields == <<"sys", "dia", "aosys", "aodia">>

\* pd.to_datetime(..., errors="coerce", dayfirst=True) followed by .date(), on
\* the scan dates of the model: the calendar day (counted from 1 January
\* 2024) of the string, None for NaT.
\*   1  "01/02/2024"  1 February        2  "15/01/2024"  15 January
\*   3  "31/02/2024"  no calendar date
to_datetime(d) == CASE d = 1 -> 32 [] d = 2 -> 15 [] OTHER -> None

\* The messages of a diagnostic; the diagnostic is kept as the list of its
\* messages, which " // ".join writes out, and "Pass" as the list of PASS.
SINGLE_FILE == <<"Only one file was uploaded">>

CLINICAL_UPLOADED == <<"A clinical report was uploaded">>

DIFFERENT_DATES == <<"different scan dates">>

DifferBy(field) == <<"differ by more than 5 mmhg", field>>

PASS == <<"Pass">>

\* clinical_ids taken from every special row, clinical or not.
clinical_ids_AnySpecial(frame) ==
    {derive_patient_id(frame[k].file) :
        k \in {j \in 1 .. Len(frame) : frame[j].special}}

\* clinical_ids
clinical_ids(frame) ==
    {derive_patient_id(frame[k].file) :
        k \in {j \in 1 .. Len(frame) : frame[j].pid = CLINICAL_REPORT_MESSAGE}}

\* The scan-date test on the strings as they are, unparsed.
DatesDiffer_Unparsed(pair_df) ==
    Len(pair_df) = 2 /\ pair_df[1].date # pair_df[2].date

\* The scan-date test on the rows of the pair.
DatesDiffer(pair_df) ==
    LET scan_dates == [k \in 1 .. Len(pair_df) |-> to_datetime(pair_df[k].date)]
        parsed == SelectSeq(scan_dates, IsNumber)
    IN Len(parsed) = 2 /\ Cardinality({parsed[k] : k \in 1 .. Len(parsed)}) > 1

\* The test of one field with diff >= 5.
FieldDiffers_AtThreshold(pair_df, field) ==
    LET values == [k \in 1 .. Len(pair_df) |-> to_numeric(pair_df[k][field])]
    IN /\ \A k \in 1 .. Len(values) : IsNumber(values[k])
       /\ Abs(values[1] - values[2]) >= DIFF_THRESHOLD

\* The test of one cross-checked field (the pair has two rows or more here).
FieldDiffers(pair_df, field) ==
    LET values == [k \in 1 .. Len(pair_df) |-> to_numeric(pair_df[k][field])]
    IN /\ \A k \in 1 .. Len(values) : IsNumber(values[k])
       /\ Abs(values[1] - values[2]) > DIFF_THRESHOLD

RECURSIVE FieldFailures(_, _)
FieldFailures(pair_df, fields) ==
    IF fields = <<>> THEN <<>>
    ELSE (IF FieldDiffers(pair_df, Head(fields))
          THEN <<DifferBy(Head(fields))>> ELSE <<>>)
         \o FieldFailures(pair_df, Tail(fields))

\* The loop body stopping at the first check that fails.
Failures_FirstOnly(frame, pairs, patient_id) ==
    LET group == SelectSeq(frame, LAMBDA r : ~r.special /\ r.pid = patient_id)
        pair == IF patient_id \in DOMAIN pairs THEN pairs[patient_id] ELSE <<>>
        pair_df == [k \in 1 .. Len(pair) |-> Row(frame, pair[k])]
        all == (IF Len(group) = 1 THEN <<SINGLE_FILE>> ELSE <<>>)
               \o (IF patient_id \in clinical_ids(frame)
                   THEN <<CLINICAL_UPLOADED>> ELSE <<>>)
               \o (IF pair # <<>>
                   THEN (IF DatesDiffer(pair_df) THEN <<DIFFERENT_DATES>> ELSE <<>>)
                        \o FieldFailures(pair_df, diff_fields)
                   ELSE <<>>)
    IN IF all = <<>> THEN <<>> ELSE <<all[1]>>

\* The body of the loop over regular_df.groupby("Patient ID").
Failures(frame, pairs, patient_id) ==
    LET group == SelectSeq(frame, LAMBDA r : ~r.special /\ r.pid = patient_id)
        pair == IF patient_id \in DOMAIN pairs THEN pairs[patient_id] ELSE <<>>
        pair_df == [k \in 1 .. Len(pair) |-> Row(frame, pair[k])]
    IN (IF Len(group) = 1 THEN <<SINGLE_FILE>> ELSE <<>>)
       \o (IF patient_id \in clinical_ids(frame) THEN <<CLINICAL_UPLOADED>> ELSE <<>>)
       \o (IF pair # <<>>
           THEN (IF DatesDiffer(pair_df) THEN <<DIFFERENT_DATES>> ELSE <<>>)
                \o FieldFailures(pair_df, diff_fields)
           ELSE <<>>)

\* _quality_check_summary(df, used_pairs), when it does not raise.
quality_check_summary(frame, pairs) ==
    LET regular == {frame[k].pid : k \in {j \in 1 .. Len(frame) : ~frame[j].special}}
        Count(p) == Cardinality({k \in 1 .. Len(frame) :
                                    ~frame[k].special /\ frame[k].pid = p})
    IN [checks |-> [p \in regular |->
                      IF Failures(frame, pairs, p) = <<>> THEN <<PASS>>
                      ELSE Failures(frame, pairs, p)],
        single_file_patient_ids |-> {p \in regular : Count(p) = 1}]

\* ------------------------------------------- save_to_excel: Averaged table

\* "-", the cell of a placeholder row.
DASH == TextCell(0)

Dash == [sum |-> DASH, count |-> 0]

\* averaged_columns without "Patient ID": the columns of df outside
\* AVERAGED_EXCLUDED_FIELDS | {"Special Row"}.
averaged_columns == {"pti", "sys", "dia", "mean", "gender", "aosys", "aodia"}

\* row = {column: "-" for column in averaged_columns}; row["Patient ID"] = ...
placeholder_row(patient_id) ==
    [c \in averaged_columns \cup {"pid"} |->
        IF c = "pid" THEN patient_id ELSE Dash]

\* The placeholder rows all together.
placeholder_rows(ids) ==
    LET order == Ascending(ids)
    IN [n \in 1 .. Len(order) |-> placeholder_row(order[n])]

\* .map(quality_checks).fillna("Pass")
QualityOf(checks, patient_id) ==
    IF patient_id \in DOMAIN checks THEN checks[patient_id] ELSE <<PASS>>

\* The Averaged table: the averaged rows, then one placeholder row for each
\* id of single_file_patient_ids (here in ascending order of id), each row
\* with the "Quality Check" of its Patient ID; at last every row whose
\* Patient ID is in single_file_patient_ids has "-" in every other column.
averaged_table(analyzed, checks, single_ids) ==
    LET rows == analyzed \o placeholder_rows(single_ids)
        Cell(r, c) ==
            IF c = "quality" THEN QualityOf(checks, r.pid)
            ELSE IF c = "pid" THEN r.pid
            ELSE IF r.pid \in single_ids THEN Dash
            ELSE r[c]
    IN [n \in 1 .. Len(rows) |->
          [c \in averaged_columns \cup {"pid", "quality"} |-> Cell(rows[n], c)]]

\* ------------------------------------------------------------------ state

VARIABLES
    records,          \* the list save_to_excel is given, in arrival order
    mode,             \* the analysis mode handed to _build_analyzed_data
    manual_pairs,     \* the override map: patient id -> tuple of labels
    pc,               \* where save_to_excel stands: "loaded", "prepared",
                      \* "built", then "saved" or "error"
    df,               \* the prepared frame, row i at df[i + 1]
    analyzed_records, \* the averaged rows, in group order
    kept_indices,     \* the labels of the rows of the chosen pairs
    used_pairs,       \* patient id -> the pair used
    auto_evaluated,   \* the patients _closest_pair_indices was called for
    kept_df,          \* the rows of the Kept table
    quality_checks,   \* patient id -> the diagnostic, as its list of messages
    single_file_patient_ids, \* the patients with one regular row
    averaged_df,      \* the rows of the Averaged table
    main_pc,          \* where main stands: "start", "choice" (the mode popup
                      \* is open), "overview" (the Manual Overview is open),
                      \* "returned" (its window is gone), "save_to_excel"
                      \* (pc tells how far it is), or "terminated"
    prepared_df,      \* main: the frame it prepared
    auto_pairs,       \* main: the pairs found without override
    manual_patients,  \* main and ManualOverview: the patients to review
    current_index,    \* ManualOverview: the patient shown
    completed,        \* ManualOverview: the review was saved
    overview_manual_pairs  \* ManualOverview.manual_pairs: patient -> selection

\* The state of main and of its Manual Overview.
main_vars == <<main_pc, prepared_df, auto_pairs, manual_patients,
               current_index, completed, overview_manual_pairs>>

vars == <<records, mode, manual_pairs, pc, df, analyzed_records,
          kept_indices, used_pairs, auto_evaluated, kept_df,
          quality_checks, single_file_patient_ids, averaged_df, main_vars>>

\* ----------------------------------------------------------------- inputs

SeqsUpTo(S, n) == UNION {[1 .. k -> S] : k \in 0 .. n}

\* A parsed record (process_pdf): a detailed report carries its cells, a
\* clinical or unrecognized one the message as its id and no cell.  The
\* patient id of a detailed report is derived from its file name; the cells
\* not given here are missing unless an input family sets them.
Record(p, d, t, pti, sys, dia, mean) ==
    [pid |-> p, date |-> d, time |-> t, pti |-> pti,
     sys |-> sys, dia |-> dia, mean |-> mean,
     file |-> <<p, 0>>, gender |-> None, aosys |-> None, aodia |-> None]

\* The file of such a report has a name of its own: prefix 0 is no patient's.
EmptyRecord(message) ==
    [Record(message, None, None, None, None, None, None) EXCEPT !.file = <<0, 0>>]

\* main has not come to its review yet.
NoReview ==
    /\ prepared_df = <<>>
    /\ auto_pairs = <<>>
    /\ manual_patients = <<>>
    /\ current_index = 0
    /\ completed = FALSE
    /\ overview_manual_pairs = <<>>

\* Before save_to_excel has run, called with records and manual_pairs as they
\* are.
Blank ==
    /\ main_pc = "save_to_excel"
    /\ NoReview
    /\ averaged_df = <<>>
    /\ pc = "loaded"
    /\ df = <<>>
    /\ analyzed_records = <<>>
    /\ kept_indices = {}
    /\ used_pairs = <<>>
    /\ auto_evaluated = {}
    /\ kept_df = <<>>
    /\ quality_checks = <<>>
    /\ single_file_patient_ids = {}

\* ---------------------------------------------------------------- actions

\* df, special_row_mask = _prepare_dataframe(records)
PrepareDataframe ==
    /\ pc = "loaded"
    /\ df' = prepare_dataframe(records)
    /\ pc' = "prepared"
    /\ UNCHANGED <<records, mode, manual_pairs, analyzed_records,
                   kept_indices, used_pairs, auto_evaluated, kept_df,
                   quality_checks, single_file_patient_ids, averaged_df,
                   main_vars>>

\* The patients whose override is not taken, so that the automatic search runs.
AutoEvaluated(frame, m, manual) ==
    {p \in SeqRange(GroupKeys(frame)) :
        ~OverrideAccepted(ManualPair(manual, p),
                          valid_group(frame, p, analysis_fields(m)))}

\* analyzed_df, kept_indices, used_pairs = _build_analyzed_data(df, mode, manual_pairs)
BuildAnalyzedData ==
    /\ pc = "prepared"
    /\ LET out == build_analyzed_data(df, mode, manual_pairs)
       IN /\ analyzed_records' = out.analyzed_records
          /\ kept_indices' = out.kept_indices
          /\ used_pairs' = out.used_pairs
    /\ auto_evaluated' = AutoEvaluated(df, mode, manual_pairs)
    /\ pc' = "built"
    /\ UNCHANGED <<records, mode, manual_pairs, df, kept_df,
                   quality_checks, single_file_patient_ids, averaged_df,
                   main_vars>>

\* Between the pairs and the marking save_to_excel calls
\* _quality_check_summary(df, used_pairs), which reads values.iloc[1] of the
\* pair's rows once every value of a cross-checked field is a number.  A
\* recorded pair of one label has a single row, whose peripheral systolic
\* value is a number (the row is eligible): the call raises IndexError and
\* save_to_excel ends there.
QualityCheckRaises(pairs) == \E p \in DOMAIN pairs : Len(pairs[p]) = 1

\* save_to_excel from the quality check to the tables: the exception, or
\* averaged_df, df["Analyed"] = ...; kept_df = df[df["Analyed"] == "Yes"]
MarkKept ==
    /\ pc = "built"
    /\ IF QualityCheckRaises(used_pairs)
       THEN /\ pc' = "error"
            /\ UNCHANGED <<df, kept_df, quality_checks, single_file_patient_ids,
                           averaged_df>>
       ELSE /\ quality_checks' = quality_check_summary(df, used_pairs).checks
            /\ single_file_patient_ids' =
                   quality_check_summary(df, used_pairs).single_file_patient_ids
            /\ df' = MarkAnalyed(df, kept_indices)
            /\ averaged_df' =
                   averaged_table(analyzed_records,
                                  quality_check_summary(df, used_pairs).checks,
                                  quality_check_summary(df, used_pairs)
                                      .single_file_patient_ids)
            /\ kept_df' = KeptFrame(MarkAnalyed(df, kept_indices))
            /\ pc' = "saved"
    /\ UNCHANGED <<records, mode, manual_pairs, analyzed_records,
                   kept_indices, used_pairs, auto_evaluated, main_vars>>

Next == PrepareDataframe \/ BuildAnalyzedData \/ MarkKept

\* The prepared frame read back as a list of records (the COLUMNS of each
\* row), for _prepare_dataframe to be applied to its own output.
AsRecords(frame) ==
    [k \in 1 .. Len(frame) |->
        [c \in (DOMAIN frame[k]) \ {"special", "recording", "analyed"} |->
            frame[k][c]]]

\* _prepare_dataframe applied to the frame it returned.
PrepareAgain ==
    /\ pc = "prepared"
    /\ df' = prepare_dataframe(AsRecords(df))
    /\ pc' = "reprepared"
    /\ UNCHANGED <<records, mode, manual_pairs, analyzed_records,
                   kept_indices, used_pairs, auto_evaluated, kept_df,
                   quality_checks, single_file_patient_ids, averaged_df,
                   main_vars>>

NextPrepareTwice == PrepareDataframe \/ PrepareAgain

\* ------------------------------------------ automatic selection (SpecSelect)

\* One scan per arrival (distinct scan times), no override.  The cells of the
\* first patient are chosen so that ties, outliers and null cells all occur;
\* a second patient with fewer values makes the labels of a group start past
\* 0 and lets two groups be paired in one run.
SelectCells(m) ==
    IF m = 2
    THEN [pid : {1}, sys : {None, 120, 121, 122}, dia : {None, 80, 82}, mean : {90}]
         \cup [pid : {2}, sys : {120, 122}, dia : {80}, mean : {90}]
    ELSE [pid : {1}, sys : {None, 120, 121}, dia : {80, 81}, mean : {None, 90}]
         \cup [pid : {2}, sys : {120, 121}, dia : {80}, mean : {90}]

InitSelect ==
    /\ mode \in {1, 2}
    /\ manual_pairs = <<>>
    /\ \E cells \in SeqsUpTo(SelectCells(mode), MaxRecords) :
          records = [k \in 1 .. Len(cells) |->
                       Record(cells[k].pid, 1, k, 5,
                              cells[k].sys, cells[k].dia, cells[k].mean)]
    /\ Blank

SpecSelect == InitSelect /\ [][Next]_vars

\* ---------------------------------------------- overrides (SpecOverride)

\* Two patients and clinical reports, one scan per arrival, a systolic value
\* present or missing; the mode is the one save_to_excel passes.
OverrideRecords ==
    {Record(p, 1, None, 5, sys, 80, 90) : p \in {1, 2}, sys \in {None, 120}}
    \cup {EmptyRecord(CLINICAL_REPORT_MESSAGE)}

\* What a caller may hand over for one patient: no label, one, or two
\* (equal or not), each label a row of the frame or not.
OverrideTuples ==
    UNION {[1 .. n -> 0 .. (MaxRecords - 1)] : n \in 0 .. 2}

OverrideMaps ==
    UNION {[K -> OverrideTuples] : K \in SUBSET {1, 2}}

\* The k-th arriving record, scanned at its own time.
ScannedAt(r, k) ==
    IF r.pid \in {CLINICAL_REPORT_MESSAGE, UNRECOGNIZED_REPORT_MESSAGE}
    THEN r ELSE [r EXCEPT !.time = k]

InitOverride ==
    /\ mode = ANALYSIS_MODE
    /\ manual_pairs \in OverrideMaps
    /\ \E rs \in SeqsUpTo(OverrideRecords, MaxRecords) :
          records = [k \in 1 .. Len(rs) |-> ScannedAt(rs[k], k)]
    /\ Blank

SpecOverride == InitOverride /\ [][Next]_vars

\* ------------------------------------------- deduplication (SpecDedup)

\* Two patients, two scan dates, scan time and PTI diastolic present or
\* missing, and both kinds of special record; the other cells are fixed.
DedupRecords ==
    {Record(p, d, t, pti, 120, 80, 90) :
        p \in {1, 2}, d \in {1, 2}, t \in {None, 1, 2}, pti \in {None, 5}}
    \cup {EmptyRecord(CLINICAL_REPORT_MESSAGE),
          EmptyRecord(UNRECOGNIZED_REPORT_MESSAGE)}

\* The record of the k-th PDF of the folder: every file has its own name.
FromFile(r, k) == [r EXCEPT !.file = <<r.file[1], k>>]

InitDedup ==
    /\ mode = ANALYSIS_MODE
    /\ manual_pairs = <<>>
    /\ \E recs \in SeqsUpTo(DedupRecords, MaxRecords) :
          records = [k \in 1 .. Len(recs) |-> FromFile(recs[k], k)]
    /\ Blank

\* _prepare_dataframe alone, as main and save_to_excel each call it.
NextPrepare == PrepareDataframe

SpecDedup == InitDedup /\ [][NextPrepare]_vars

\* The same inputs, prepared and then prepared again.
SpecPrepareTwice == InitDedup /\ [][NextPrepareTwice]_vars

\* ------------------------------------------------- main and ManualOverview

\* ManualOverview._patient_rows: the labels of the patient's rows that are
\* not special, in the order of the frame.
patient_rows(frame, patient_id) ==
    Ascending({i \in Indices(frame) :
                  Row(frame, i).pid = patient_id /\ ~Row(frame, i).special})

\* The test of main's manual_patients with >= 2 for > 2.
NeedsReview_FromTwo(frame, patient_id) ==
    Len(patient_rows(frame, patient_id)) >= 2

\* main: if len(group) > 2
NeedsReview(frame, patient_id) ==
    Len(patient_rows(frame, patient_id)) > 2

\* main: manual_patients, in the order of groupby (ascending id).
ManualPatients(frame) ==
    Ascending({frame[k].pid : k \in {j \in 1 .. Len(frame) :
                  ~frame[j].special /\ NeedsReview(frame, frame[j].pid)}})

\* ManualOverview.__init__: the selection a patient starts with.
InitialSelection(frame, autos, patient_id) ==
    LET auto_pair == IF patient_id \in DOMAIN autos THEN autos[patient_id] ELSE <<>>
        rows == patient_rows(frame, patient_id)
        fallback == SubSeq(rows, 1, IF Len(rows) < 2 THEN Len(rows) ELSE 2)
    IN IF Len(auto_pair) = 2 THEN auto_pair ELSE fallback

Without(selection, row_index) ==
    LET Other(i) == i # row_index IN SelectSeq(selection, Other)

\* _toggle_manual putting the new row in place of the oldest of two.
toggle_manual_ReplacesOldest(selection, row_index) ==
    IF row_index \in SeqRange(selection) THEN Without(selection, row_index)
    ELSE IF Len(selection) < 2 THEN Append(selection, row_index)
    ELSE Append(Tail(selection), row_index)

\* _toggle_manual on the selection of the patient shown: remove the row,
\* append it when fewer than two are selected, or warn and change nothing.
toggle_manual(selection, row_index) ==
    IF row_index \in SeqRange(selection) THEN Without(selection, row_index)
    ELSE IF Len(selection) < 2 THEN Append(selection, row_index)
    ELSE selection

\* _complete's test looking at the patient shown only.
AllChosen_ShownOnly(patients, selections, shown) ==
    Len(selections[patients[shown + 1]]) = 2

\* _complete: every reviewed patient has two rows selected.
AllChosen(patients, selections, shown) ==
    \A k \in 1 .. Len(patients) : Len(selections[patients[k]]) = 2

\* _go_next's guard letting the position reach the number of patients.
AtLast_OneLate(patients, shown) == shown >= Len(patients)

\* _go_next: if self.current_index >= len(self.manual_patients) - 1: return
AtLast(patients, shown) == shown >= Len(patients) - 1

\* ManualOverview.run: None when not completed, else the selections of two.
run(is_completed, selections) ==
    LET two == {q \in DOMAIN selections : Len(selections[q]) = 2}
    IN IF ~is_completed THEN [none |-> TRUE, pairs |-> <<>>]
       ELSE [none |-> FALSE, pairs |-> [q \in two |-> selections[q]]]

\* main up to the review: prepare, find the automatic pairs, list the
\* patients to review; with none to review the export starts at once.
MainPrepare ==
    /\ main_pc = "start"
    /\ prepared_df' = prepare_dataframe(records)
    /\ auto_pairs' = build_analyzed_data(prepared_df', ANALYSIS_MODE, <<>>).used_pairs
    /\ manual_patients' = ManualPatients(prepared_df')
    /\ IF manual_patients' # <<>>
       THEN /\ main_pc' = "choice"
            /\ UNCHANGED <<manual_pairs, pc>>
       ELSE /\ main_pc' = "save_to_excel"
            /\ manual_pairs' = auto_pairs'
            /\ pc' = "loaded"
    /\ UNCHANGED <<records, mode, df, analyzed_records, kept_indices,
                   used_pairs, auto_evaluated, kept_df, quality_checks,
                   single_file_patient_ids, averaged_df, current_index,
                   completed, overview_manual_pairs>>

\* What no step of the review touches.
ReviewFrame ==
    UNCHANGED <<records, mode, df, analyzed_records, kept_indices,
                used_pairs, auto_evaluated, kept_df, quality_checks,
                single_file_patient_ids, averaged_df, prepared_df,
                auto_pairs, manual_patients>>

\* show_mode_choice_popup: "Use Auto Method"
UseAutoMethod ==
    /\ main_pc = "choice"
    /\ manual_pairs' = auto_pairs
    /\ main_pc' = "save_to_excel"
    /\ pc' = "loaded"
    /\ UNCHANGED <<current_index, completed, overview_manual_pairs>>
    /\ ReviewFrame

\* show_mode_choice_popup: "Manual Overview", and ManualOverview.__init__
OpenManualOverview ==
    /\ main_pc = "choice"
    /\ current_index' = 0
    /\ completed' = FALSE
    /\ overview_manual_pairs' =
          [q \in SeqRange(manual_patients) |->
              InitialSelection(prepared_df, auto_pairs, q)]
    /\ main_pc' = "overview"
    /\ UNCHANGED <<manual_pairs, pc>>
    /\ ReviewFrame

\* Closing the Manual Overview taken as run() returning None: main goes on
\* with the automatic pairs.  (Closing the mode popup still ends the run.)
CloseWindow_FallsBackToAuto ==
    /\ main_pc \in {"choice", "overview"}
    /\ IF main_pc = "overview"
       THEN /\ manual_pairs' = auto_pairs
            /\ main_pc' = "save_to_excel"
            /\ pc' = "loaded"
       ELSE /\ main_pc' = "terminated"
            /\ UNCHANGED <<manual_pairs, pc>>
    /\ UNCHANGED <<current_index, completed, overview_manual_pairs>>
    /\ ReviewFrame

\* WM_DELETE_WINDOW of either window: terminate_application destroys the
\* root and exits the process.
CloseWindow ==
    /\ main_pc \in {"choice", "overview"}
    /\ main_pc' = "terminated"
    /\ UNCHANGED <<manual_pairs, pc, current_index, completed,
                   overview_manual_pairs>>
    /\ ReviewFrame

\* _toggle_manual from the "Manual" button of a row of the patient shown.
ToggleManual ==
    /\ main_pc = "overview"
    /\ LET patient_id == manual_patients[current_index + 1]
       IN \E n \in 1 .. Len(patient_rows(prepared_df, patient_id)) :
             overview_manual_pairs' =
                [overview_manual_pairs EXCEPT ![patient_id] =
                    toggle_manual(@, patient_rows(prepared_df, patient_id)[n])]
    /\ UNCHANGED <<manual_pairs, pc, main_pc, current_index, completed>>
    /\ ReviewFrame

\* _go_previous
GoPrevious ==
    /\ main_pc = "overview"
    /\ IF current_index <= 0 THEN UNCHANGED current_index
       ELSE current_index' = current_index - 1
    /\ UNCHANGED <<manual_pairs, pc, main_pc, completed, overview_manual_pairs>>
    /\ ReviewFrame

\* _go_next
GoNext ==
    /\ main_pc = "overview"
    /\ IF AtLast(manual_patients, current_index) THEN UNCHANGED current_index
       ELSE current_index' = current_index + 1
    /\ UNCHANGED <<manual_pairs, pc, main_pc, completed, overview_manual_pairs>>
    /\ ReviewFrame

\* _complete ("Save All, Complete Analysis"): an error box, or completed and
\* the window destroyed.
Complete ==
    /\ main_pc = "overview"
    /\ IF AllChosen(manual_patients, overview_manual_pairs, current_index)
       THEN completed' = TRUE /\ main_pc' = "returned"
       ELSE UNCHANGED <<completed, main_pc>>
    /\ UNCHANGED <<manual_pairs, pc, current_index, overview_manual_pairs>>
    /\ ReviewFrame

\* wait_window returns: manual_pairs = manual_overview.run(), auto_pairs if
\* that is None, and the export starts.
OverviewReturns ==
    /\ main_pc = "returned"
    /\ manual_pairs' =
          IF run(completed, overview_manual_pairs).none THEN auto_pairs
          ELSE run(completed, overview_manual_pairs).pairs
    /\ main_pc' = "save_to_excel"
    /\ pc' = "loaded"
    /\ UNCHANGED <<current_index, completed, overview_manual_pairs>>
    /\ ReviewFrame

NextMain ==
    \/ MainPrepare \/ UseAutoMethod \/ OpenManualOverview \/ CloseWindow
    \/ ToggleManual \/ GoPrevious \/ GoNext \/ Complete \/ OverviewReturns
    \/ PrepareDataframe \/ BuildAnalyzedData \/ MarkKept

\* The scans of one patient, by their peripheral systolic values: one scan,
\* two, or three with the closest two last or with one usable only.
Profiles ==
    {<<120>>, <<120, 122>>, <<120, 122, 122>>, <<None, None, 120>>}

\* The records of a run: for patient 1, 2, ... the scans of its profile, one
\* file and one scan time each, then perhaps a clinical report.
RECURSIVE ScansOf(_, _)
ScansOf(profiles, first) ==
    IF profiles = <<>> THEN <<>>
    ELSE LET patient_id == first
             f == Head(profiles)
         IN [k \in 1 .. Len(f) |->
                FromFile(Record(patient_id, 1, k, 5, f[k], 80, 90), k)]
            \o ScansOf(Tail(profiles), first + 1)

InitMain ==
    /\ mode = ANALYSIS_MODE
    /\ \E profiles \in SeqsUpTo(Profiles, MaxPatients) :
       \E clinical \in SeqsUpTo({EmptyRecord(CLINICAL_REPORT_MESSAGE)}, 1) :
          records = ScansOf(profiles, 1) \o clinical
    /\ manual_pairs = <<>>
    /\ main_pc = "start"
    /\ pc = "main"
    /\ NoReview
    /\ df = <<>>
    /\ analyzed_records = <<>>
    /\ kept_indices = {}
    /\ used_pairs = <<>>
    /\ auto_evaluated = {}
    /\ kept_df = <<>>
    /\ quality_checks = <<>>
    /\ single_file_patient_ids = {}
    /\ averaged_df = <<>>

SpecMain == InitMain /\ [][NextMain]_vars

\* The statements main and save_to_excel run by themselves, seen on the two
\* program counters: under [][NextMain]_vars a step that moves a counter in
\* one of these ways is the step MainPrepare, OverviewReturns,
\* PrepareDataframe, BuildAnalyzedData or MarkKept standing at that counter,
\* and that step can always be taken there.
ProgramStep ==
    \/ /\ main_pc = "start"
       /\ \/ main_pc' = "choice" /\ pc' = pc
          \/ main_pc' = "save_to_excel" /\ pc' = "loaded"
    \/ main_pc = "returned" /\ main_pc' = "save_to_excel" /\ pc' = "loaded"
    \/ pc = "loaded" /\ pc' = "prepared" /\ main_pc' = main_pc
    \/ pc = "prepared" /\ pc' = "built" /\ main_pc' = main_pc
    \/ pc = "built" /\ pc' \in {"saved", "error"} /\ main_pc' = main_pc

\* Python runs the statements of main one after the other, so a step main
\* can take by itself is taken; what the reviewer does (a button, closing a
\* window) may never come, and mainloop then waits for ever.
SpecMainLive == SpecMain /\ WF_<<main_pc, pc>>(ProgramStep)

\* ---------------------------------------------- averaging (SpecAverage)

\* Two strings that are not numbers, as a "Gender" cell holds them.
Male == TextCell(1)

Female == TextCell(2)

\* The scans of one patient, each eligible (a systolic value), with the
\* diastolic cell a number, missing or a string that is not a number, and the
\* gender cell a string or missing; the aortic cells are always missing.
AverageRecords ==
    {[Record(1, 1, None, 5, sys, dia, 90) EXCEPT !.gender = g] :
        sys \in {118, 120}, dia \in {None, 80, 82, TextCell(3)},
        g \in {None, Male, Female}}

\* No override, or two distinct labels in either order.
OrderedPairs ==
    {<<>>} \cup ({<<i, j>> : i, j \in 0 .. (MaxScans - 1)}
                    \ {<<i, i>> : i \in 0 .. (MaxScans - 1)})

InitAverage ==
    /\ mode = ANALYSIS_MODE
    /\ \E pair \in OrderedPairs :
          manual_pairs = IF pair = <<>> THEN <<>> ELSE [p \in {1} |-> pair]
    /\ \E rs \in SeqsUpTo(AverageRecords, MaxScans) :
          records = [k \in 1 .. Len(rs) |-> ScannedAt(rs[k], k)]
    /\ Blank

SpecAverage == InitAverage /\ [][Next]_vars

\* ------------------------------------------- quality check (SpecQuality)

\* Two patients; scans with a scan date that parses (two calendar days),
\* does not parse or is missing, and a systolic value of 120 or 126; clinical
\* reports whose file name starts with the id of either patient (who may have
\* no scan in the run), and an unrecognized report named after the first.
QualityRecords ==
    {Record(p, d, None, 5, sys, 80, 90) :
        p \in {1, 2}, d \in {None, 1, 2, 3}, sys \in {120, 126}}
    \cup {[EmptyRecord(CLINICAL_REPORT_MESSAGE) EXCEPT !.file = <<n, 0>>] :
            n \in {1, 2}}
    \cup {[EmptyRecord(UNRECOGNIZED_REPORT_MESSAGE) EXCEPT !.file = <<1, 0>>]}

InitQuality ==
    /\ mode = ANALYSIS_MODE
    /\ manual_pairs = <<>>
    /\ \E rs \in SeqsUpTo(QualityRecords, MaxRecords) :
          records = [k \in 1 .. Len(rs) |-> ScannedAt(rs[k], k)]
    /\ Blank

SpecQuality == InitQuality /\ [][Next]_vars

\* ------------------------------------------ disagreement (SpecDisagree)

\* The scans of one patient: each cross-checked field with values 5 and 6
\* apart or, for three of them, a cell that is missing or not a number.
DisagreeRecords ==
    {[Record(1, 1, None, 5, sys, dia, 90) EXCEPT !.aosys = as, !.aodia = ad] :
        sys \in {120, 125, 126}, dia \in {None, 80, 86},
        as \in {TextCell(3), 100, 106}, ad \in {70, 75}}

InitDisagree ==
    /\ mode = ANALYSIS_MODE
    /\ manual_pairs = <<>>
    /\ \E rs \in SeqsUpTo(DisagreeRecords, MaxScans) :
          records = [k \in 1 .. Len(rs) |-> ScannedAt(rs[k], k)]
    /\ Blank

SpecDisagree == InitDisagree /\ [][Next]_vars

\* ------------------------------------------------- vocabulary of the claims

\* save_to_excel has the pairs in hand.
Built == pc \in {"built", "saved", "error"}

\* The subjects of the prepared frame: the ids of its regular rows.
Subjects == {df[k].pid : k \in {j \in 1 .. Len(df) : ~df[j].special}}

\* The field set of the active mode.
ModeFields == IF mode = 2 THEN {"sys"} ELSE {"sys", "dia", "mean"}

\* The eligible records of subject p: its rows with a number in every field
\* of the active mode.
Eligible(p) ==
    {i \in Indices(df) :
        Row(df, i).pid = p /\ \A c \in ModeFields : Row(df, i)[c] >= 0}

\* The unordered pairs of eligible records of p, as <<i, j>> with i < j.
EligiblePairs(p) ==
    {<<i, j>> \in Eligible(p) \X Eligible(p) : i < j}

Sq(x) == x * x

\* The squared Euclidean distance of two eligible rows over the mode's fields.
EuclidSq(i, j) ==
    IF mode = 2 THEN Sq(Row(df, i).sys - Row(df, j).sys)
    ELSE Sq(Row(df, i).sys - Row(df, j).sys)
         + Sq(Row(df, i).dia - Row(df, j).dia)
         + Sq(Row(df, i).mean - Row(df, j).mean)

\* The override supplied for p is valid: it names rows, all of them eligible.
ValidOverride(p) ==
    /\ p \in DOMAIN manual_pairs
    /\ manual_pairs[p] # <<>>
    /\ \A k \in 1 .. Len(manual_pairs[p]) : manual_pairs[p][k] \in Eligible(p)

\* The subjects the automatic selection decides.
AutoSubjects ==
    {p \in Subjects : Cardinality(Eligible(p)) >= 2 /\ ~ValidOverride(p)}

\* Both rows of the pair carry a diastolic number.
DiaPresent(i, j) == Row(df, i).dia >= 0 /\ Row(df, j).dia >= 0

DiaGap(i, j) == Abs(Row(df, i).dia - Row(df, j).dia)

\* pr comes before qr in the enumeration by first, then second, index.
EnumBefore(pr, qr) == pr[1] < qr[1] \/ (pr[1] = qr[1] /\ pr[2] < qr[2])

\* The pairs of p at the same distance as the pair used for p.
TiedPairs(p) ==
    {qr \in EligiblePairs(p) :
        EuclidSq(qr[1], qr[2]) = EuclidSq(used_pairs[p][1], used_pairs[p][2])}

\* --------------------------------------------------------------------- C1
\* C1: after pair selection, every subject with at least two eligible
\* records and no valid override has a pair of two of its eligible records
\* whose Euclidean distance over the mode's fields is at most the distance
\* of every unordered pair of its eligible records.
C1_ClosestPairIsMinimal ==
    Built =>
      \A p \in AutoSubjects :
        /\ p \in DOMAIN used_pairs
        /\ used_pairs[p] \in EligiblePairs(p)
        /\ \A qr \in EligiblePairs(p) :
              EuclidSq(used_pairs[p][1], used_pairs[p][2]) <= EuclidSq(qr[1], qr[2])

\* C1 witness: a subject with three eligible records one of which is an
\* outlier, the pair used being neither the first pair nor one with it.
C1_Witness ==
    /\ Built
    /\ \E p \in AutoSubjects :
         /\ Cardinality(Eligible(p)) >= 3
         /\ \E qr \in EligiblePairs(p) :
               /\ EnumBefore(qr, used_pairs[p])
               /\ EuclidSq(qr[1], qr[2])
                    > EuclidSq(used_pairs[p][1], used_pairs[p][2])

\* --------------------------------------------------------------------- C2
\* C2: in Mode B, among the pairs of a subject tied on the minimum systolic
\* distance, the pair used has the smallest diastolic gap: whenever a tied
\* pair has both diastolic values, so has the pair used, and its gap is no
\* larger.
C2_DiastolicTieBreak ==
    (Built /\ mode = 2) =>
      \A p \in AutoSubjects :
        /\ p \in DOMAIN used_pairs
        /\ used_pairs[p] \in EligiblePairs(p)
        /\ \A qr \in TiedPairs(p) :
              DiaPresent(qr[1], qr[2]) =>
                /\ DiaPresent(used_pairs[p][1], used_pairs[p][2])
                /\ DiaGap(used_pairs[p][1], used_pairs[p][2]) <= DiaGap(qr[1], qr[2])

\* C2 witness: Mode B, and a tied pair enumerated before the pair used was
\* passed over, its diastolic gap being larger.
C2_Witness ==
    /\ Built /\ mode = 2
    /\ \E p \in AutoSubjects :
         \E qr \in TiedPairs(p) :
            /\ EnumBefore(qr, used_pairs[p])
            /\ DiaPresent(qr[1], qr[2])
            /\ DiaGap(qr[1], qr[2]) > DiaGap(used_pairs[p][1], used_pairs[p][2])

\* --------------------------------------------------------------------- C3
\* The pair qr is tied with the pair used for p on everything the mode
\* compares: the distance, and in Mode B the diastolic gap as well.
FullyTied(p, qr) ==
    /\ qr \in TiedPairs(p)
    /\ mode = 2 =>
         /\ DiaPresent(qr[1], qr[2]) = DiaPresent(used_pairs[p][1], used_pairs[p][2])
         /\ DiaPresent(qr[1], qr[2]) =>
               DiaGap(qr[1], qr[2]) = DiaGap(used_pairs[p][1], used_pairs[p][2])

\* C3: of the pairs that remain tied (Mode B: on distance and diastolic gap;
\* Mode A: on distance alone) the pair used is the first in the enumeration
\* ascending by first, then second, record index.
C3_FirstTiedPairWins ==
    Built =>
      \A p \in AutoSubjects :
        /\ p \in DOMAIN used_pairs
        /\ used_pairs[p] \in EligiblePairs(p)
        /\ \A qr \in EligiblePairs(p) :
              (FullyTied(p, qr) /\ qr # used_pairs[p]) => EnumBefore(used_pairs[p], qr)

\* C3 witness: Mode A, where a pair tied on distance and enumerated later
\* has the closer diastolic values and is still not the one used.
C3_Witness ==
    /\ Built /\ mode = 1
    /\ \E p \in AutoSubjects :
         \E qr \in TiedPairs(p) :
            /\ EnumBefore(used_pairs[p], qr)
            /\ DiaGap(qr[1], qr[2]) < DiaGap(used_pairs[p][1], used_pairs[p][2])

\* ----------------------------------------------- vocabulary: the overrides

\* The pair used for p, <<>> when none was recorded.
UsedPair(p) == IF p \in DOMAIN used_pairs THEN used_pairs[p] ELSE <<>>

\* pr is preferred to qr by the automatic selection: closer; in Mode B, at
\* the same distance, the closer diastolic values (a missing value last);
\* and, everything compared being equal, the earlier in the enumeration.
GapLess(pr, qr) ==
    /\ DiaPresent(pr[1], pr[2])
    /\ DiaPresent(qr[1], qr[2]) => DiaGap(pr[1], pr[2]) < DiaGap(qr[1], qr[2])

Preferred(pr, qr) ==
    \/ EuclidSq(pr[1], pr[2]) < EuclidSq(qr[1], qr[2])
    \/ /\ EuclidSq(pr[1], pr[2]) = EuclidSq(qr[1], qr[2])
       /\ \/ mode = 2 /\ GapLess(pr, qr)
          \/ /\ ~(mode = 2 /\ GapLess(qr, pr))
             /\ EnumBefore(pr, qr)

\* The pair automatic selection gives p: the one preferred to every other
\* pair of eligible records, none when there are fewer than two of them.
AutoPair(p) ==
    IF EligiblePairs(p) = {} THEN <<>>
    ELSE CHOOSE pr \in EligiblePairs(p) :
            \A qr \in EligiblePairs(p) \ {pr} : Preferred(pr, qr)

\* The override map says nothing usable for p, or names two labels.
TwoLabelsOrNone(p) ==
    p \in DOMAIN manual_pairs => Len(manual_pairs[p]) \in {0, 2}

\* --------------------------------------------------------------------- C4
\* C4: for a subject whose override, if any, names two labels: when both
\* labels are eligible records of the subject, the pair used is the override
\* itself, labels and order, and the automatic search is not run for the
\* subject; otherwise the automatic search is run and the pair used is the
\* pair it returns (none, if it returns none).
C4_ValidOverrideWins ==
    Built =>
      \A p \in Subjects :
        TwoLabelsOrNone(p) =>
          IF ValidOverride(p)
          THEN UsedPair(p) = manual_pairs[p] /\ p \notin auto_evaluated
          ELSE UsedPair(p) = AutoPair(p) /\ p \in auto_evaluated

\* C4 witness: a valid override of two different records that is not the
\* pair automatic selection would give, and is the pair used.
C4_Witness ==
    /\ Built
    /\ \E p \in Subjects :
         /\ ValidOverride(p)
         /\ Len(manual_pairs[p]) = 2
         /\ manual_pairs[p][1] # manual_pairs[p][2]
         /\ manual_pairs[p] # AutoPair(p)
         /\ UsedPair(p) = manual_pairs[p]

\* --------------------------------------------------------------------- C5
\* The entry of the override map for p is invalid: not exactly two labels,
\* or a label that is not an eligible record of p (a row of another subject,
\* a special or ineligible row, no row at all).
InvalidEntry(p) ==
    /\ p \in DOMAIN manual_pairs
    /\ \/ Len(manual_pairs[p]) # 2
       \/ \E k \in 1 .. Len(manual_pairs[p]) : manual_pairs[p][k] \notin Eligible(p)

\* The override map without its entry for p.
WithoutEntry(p) == [q \in DOMAIN manual_pairs \ {p} |-> manual_pairs[q]]

\* C5: an invalid entry makes its subject's pair the automatic pair, and
\* every other subject's pair is the one chosen without that entry.
C5_InvalidOverrideIsolated ==
    Built =>
      \A p \in DOMAIN manual_pairs :
        InvalidEntry(p) =>
          /\ p \in Subjects => UsedPair(p) = AutoPair(p)
          /\ \A q \in Subjects \ {p} :
                UsedPair(q) = ChosenPair(df, mode, WithoutEntry(p), q)

\* --------------------------------------------------------------------- C6
\* C6: every pair recorded in used_pairs is two different labels, both of
\* them eligible records of the subject it is recorded for (rows of the
\* subject, not special, with a number in every field of the mode).
C6_PairsWellFormed ==
    Built =>
      \A p \in DOMAIN used_pairs :
        /\ Len(used_pairs[p]) = 2
        /\ used_pairs[p][1] # used_pairs[p][2]
        /\ \A k \in 1 .. Len(used_pairs[p]) :
              /\ used_pairs[p][k] \in Eligible(p)
              /\ ~Row(df, used_pairs[p][k]).special

\* --------------------------------------------------------------------- C7
\* The labels that occur in the pair used for some subject.
PairLabels == UNION {SeqRange(used_pairs[p]) : p \in DOMAIN used_pairs}

C8_NoPairBelowTwoEligible ==
    Built =>
      \A p \in Subjects :
        Cardinality(Eligible(p)) < 2 =>
          /\ p \notin DOMAIN used_pairs
          /\ \A i \in kept_indices : Row(df, i).pid # p
          /\ \A k \in 1 .. Len(analyzed_records) : analyzed_records[k].pid # p
          /\ pc = "saved" => \A k \in 1 .. Len(kept_df) : kept_df[k].pid # p

\* ------------------------------------------ vocabulary: deduplication

\* _prepare_dataframe has returned.
Prepared == pc # "loaded"

IsMessage(p) == p \in {CLINICAL_REPORT_MESSAGE, UNRECOGNIZED_REPORT_MESSAGE}

\* The arrival positions of the regular and of the special input records.
RegularInputs == {k \in 1 .. Len(records) : ~IsMessage(records[k].pid)}

SpecialInputs == {k \in 1 .. Len(records) : IsMessage(records[k].pid)}

\* The rows of the returned frame, by label.
RegularRows == {i \in Indices(df) : ~Row(df, i).special}

SpecialRows == {i \in Indices(df) : Row(df, i).special}

\* The deduplication key (subject id, scan time, PTI diastolic).
KeyOf(r) == <<r.pid, r.time, r.pti>>

\* The cells of a record or row that the input carries.
Cells(r) == <<r.pid, r.date, r.time, r.pti, r.sys, r.dia, r.mean>>

\* Scan date d is not after e in the sort order (a missing date is last).
DateNotAfter(d, e) == d = e \/ e = None \/ (d # None /\ d < e)

\* --------------------------------------------------------------------- C9
\* C9: the returned records are (a) for each distinct key among the regular
\* input records exactly one record, a regular input record with that key
\* that no other with the key precedes in the sort order, and (b) every
\* special row of the input, as often as it arrived; so a regular record is
\* gone only if a returned regular record has its key, and no special row is
\* gone.
C9_DeduplicationResult ==
    Prepared =>
      /\ \A i, j \in RegularRows :
            KeyOf(Row(df, i)) = KeyOf(Row(df, j)) => i = j
      /\ \A k \in RegularInputs :
            \E i \in RegularRows : KeyOf(Row(df, i)) = KeyOf(records[k])
      /\ \A i \in RegularRows :
            /\ \E k \in RegularInputs : Cells(records[k]) = Cells(Row(df, i))
            /\ \A k \in RegularInputs :
                  KeyOf(records[k]) = KeyOf(Row(df, i)) =>
                     DateNotAfter(Row(df, i).date, records[k].date)
      /\ \A m \in {CLINICAL_REPORT_MESSAGE, UNRECOGNIZED_REPORT_MESSAGE} :
            Cardinality({i \in SpecialRows : Row(df, i).pid = m})
              = Cardinality({k \in SpecialInputs : records[k].pid = m})
      /\ Len(df) = Cardinality({KeyOf(records[k]) : k \in RegularInputs})
                     + Cardinality(SpecialInputs)

\* C9 witness: of two regular records with the same key the one that
\* arrived second has the earlier scan date and is the one returned, and a
\* special row arrived and is returned too.
C9_Witness ==
    /\ Prepared
    /\ Len(records) = 3 /\ Len(df) = 2
    /\ KeyOf(records[1]) = KeyOf(records[2])
    /\ records[1].date = 2 /\ records[2].date = 1
    /\ Row(df, 0).date = 1 /\ ~Row(df, 0).special
    /\ Row(df, 1).special

\* -------------------------------------------------------------------- C10
\* The key holds a null: the scan time or the PTI diastolic is missing.
NullKeyed(r) == r.time = None \/ r.pti = None

\* C10: regular records whose key holds a null are never duplicates of one
\* another: every one of them is retained, so each subject has as many such
\* rows in the returned frame as it had such records in the input.
C10_NullKeysNeverDuplicates ==
    Prepared =>
      \A p \in {records[k].pid : k \in RegularInputs} :
        Cardinality({i \in RegularRows :
                       Row(df, i).pid = p /\ NullKeyed(Row(df, i))})
          = Cardinality({k \in RegularInputs :
                           records[k].pid = p /\ NullKeyed(records[k])})

\* C11: preparing the frame _prepare_dataframe returned gives that frame
\* again: the same rows in the same order under the same labels, with the
\* same recording numbers.
C11_PrepareIdempotent ==
    [][pc = "prepared" /\ pc' = "reprepared" => df' = df]_vars

\* A frame prepared twice whose first preparation dropped a duplicate, moved
\* a row and numbered a second recording.
C11_Witness ==
    /\ pc = "reprepared"
    /\ Len(df) < Len(records)
    /\ \E k \in 1 .. Len(df) : Cells(df[k]) # Cells(FrameRow(records[k]))
    /\ \E k \in 1 .. Len(df) : df[k].recording = 2

\* -------------------------------------------------------------------- C12
\* A value of a sort key is strictly before another (a missing one is last).
KeyBefore(x, y) == x # y /\ DateNotAfter(x, y)

\* The sort key (subject id, scan date, scan time) of a row.
SortKey(r) == <<r.pid, r.date, r.time>>

\* Row a is strictly before row b on the sort key.
SortKeyBefore(a, b) ==
    \/ KeyBefore(a.pid, b.pid)
    \/ a.pid = b.pid /\ KeyBefore(a.date, b.date)
    \/ a.pid = b.pid /\ a.date = b.date /\ KeyBefore(a.time, b.time)

\* The arrival position of the record a row was made from (its file).
Arrival(r) == r.file[2]

\* C12: in the returned frame every regular row precedes every special row;
\* among the regular rows, and among the special rows, the rows are in
\* ascending order of (subject id, scan date, scan time), as the sort
\* compares these cells, a missing cell last; rows equal on the key are in
\* the order in which their records arrived.
C12_SortOrderOnReturn ==
    Prepared =>
      \A i, j \in Indices(df) :
        i < j =>
          /\ Row(df, i).special => Row(df, j).special
          /\ Row(df, i).special = Row(df, j).special =>
                /\ ~SortKeyBefore(Row(df, j), Row(df, i))
                /\ SortKey(Row(df, i)) = SortKey(Row(df, j)) =>
                      Arrival(Row(df, i)) < Arrival(Row(df, j))

\* C12 witness: a special record arrived first and is returned last, behind
\* two regular rows equal on the sort key that kept their order of arrival.
C12_Witness ==
    /\ Prepared
    /\ Len(df) = 3
    /\ IsMessage(records[1].pid) /\ Row(df, 2).special
    /\ ~Row(df, 0).special /\ ~Row(df, 1).special
    /\ SortKey(Row(df, 0)) = SortKey(Row(df, 1))
    /\ Arrival(Row(df, 0)) = 2 /\ Arrival(Row(df, 1)) = 3

\* -------------------------------------------------------------------- C13
\* The recording numbers of the regular rows of subject p, by label.
RowsOf(p) == {i \in RegularRows : Row(df, i).pid = p}

\* The numbers are 1..n per subject, in the order of the frame, and a
\* special row has none.
NumberedInFrameOrder ==
    /\ \A i \in SpecialRows : Row(df, i).recording = None
    /\ \A p \in Subjects :
          /\ {Row(df, i).recording : i \in RowsOf(p)} = 1 .. Cardinality(RowsOf(p))
          /\ \A i, j \in RowsOf(p) :
                i < j => Row(df, i).recording < Row(df, j).recording

\* A row with an earlier calendar scan date has no higher number than a row
\* of the same subject with a later one.
NumberedByCalendar ==
    \A p \in Subjects : \A i, j \in RowsOf(p) :
        LET di == to_datetime(Row(df, i).date)
            dj == to_datetime(Row(df, j).date)
        IN (di # None /\ dj # None /\ di < dj) =>
              Row(df, i).recording <= Row(df, j).recording

\* C13: each subject's regular rows are numbered 1..n without gap in
\* chronological order (scan date, then scan time): a row with an earlier
\* calendar scan date never has a higher number than one with a later date;
\* special rows have no number.
C13_RecordingNumbersChronological ==
    Prepared => NumberedInFrameOrder /\ NumberedByCalendar

\* -------------------------------------------------------------------- C14
\* The labels save_to_excel holds: in the pairs and in the kept set.
HeldLabels == PairLabels \cup kept_indices

\* C14 as stated: the index in the pair tuples and in the kept index set is
\* the arrival position of the record in the ingested collection (counted
\* from 0, as the labels are), never renumbered.  In these runs the k-th
\* arriving detailed record has scan time k.
C14_IndexIsArrivalPosition ==
    Built => \A i \in HeldLabels : Row(df, i).time = i + 1

\* C14 amended: the index is the position of the row in the frame
\* _prepare_dataframe returns (sorted, deduplicated, numbered 0..n-1 anew);
\* the labels in the pairs and in the kept set are labels of that frame, and
\* from preparation on no step moves a row to another label.
C14_IndexIsPreparedPosition ==
    [][pc # "loaded" =>
          /\ Len(df') = Len(df)
          /\ \A i \in Indices(df) : Cells(Row(df', i)) = Cells(Row(df, i))
          /\ PairLabels' \subseteq Indices(df')
          /\ kept_indices' \subseteq Indices(df')]_vars

\* C14 witness: the rows are marked, a pair is kept, and a kept row stands
\* at a label that is not its arrival position.
C14_Witness ==
    /\ pc = "saved"
    /\ \E p \in DOMAIN used_pairs : Len(used_pairs[p]) = 2
    /\ \E i \in kept_indices : Row(df, i).time # i + 1

\* -------------------------------------------------------------------- C15
\* The columns of a row outside the exclusion set, the subject id apart.
AveragedFields == {"pti", "sys", "dia", "mean", "gender", "aosys", "aodia"}

\* The columns of the model that are in AVERAGED_EXCLUDED_FIELDS.
ExcludedFields == {"file", "date", "time", "recording", "analyed"}

\* The subjects whose pair has two rows, and the averaged record of one.
Paired == {p \in DOMAIN used_pairs : Len(used_pairs[p]) = 2}

AveragedOf(p) ==
    analyzed_records[CHOOSE n \in 1 .. Len(analyzed_records) :
                        analyzed_records[n].pid = p]

\* The cells of column c in the two rows of p's pair, in the pair's order,
\* and the numbers among them.
PairCells(p, c) ==
    <<Row(df, used_pairs[p][1])[c], Row(df, used_pairs[p][2])[c]>>

PairNumbers(p, c) == SelectSeq(PairCells(p, c), IsNumber)

\* C15: for every column outside the exclusion set, when at least one of
\* the two rows of the pair holds a number the averaged value is the
\* arithmetic mean of the numbers present: (a + b) / 2 of two, v of one
\* beside a missing or non-numeric cell.
C15_MeanOfNumbersPresent ==
    Built =>
      \A p \in Paired : \A c \in AveragedFields :
        PairNumbers(p, c) # <<>> =>
          /\ AveragedOf(p)[c].count > 0
          /\ AveragedOf(p)[c].sum * Len(PairNumbers(p, c))
                = SeqSum(PairNumbers(p, c)) * AveragedOf(p)[c].count

\* C15 witness: 118 and 120 average to 119, and a diastolic 80 beside a
\* string averages to 80.
C15_Witness ==
    /\ Built /\ 1 \in Paired
    /\ PairCells(1, "sys") = <<118, 120>>
    /\ AveragedOf(1).sys.sum = 119 * AveragedOf(1).sys.count
    /\ PairCells(1, "dia") = <<TextCell(3), 80>>
    /\ AveragedOf(1).dia.sum = 80 * AveragedOf(1).dia.count

\* -------------------------------------------------------------------- C16
\* The cells of the pair that are not null, in the pair's order.
PairNonNull(p, c) ==
    LET NotNull(v) == v # None IN SelectSeq(PairCells(p, c), NotNull)

\* C16: for a column outside the exclusion set in which neither row of the
\* pair holds a number, the averaged value is the first cell that is not
\* null in the declared order of the pair, or null when both are; the
\* subject id is copied unchanged from the pair; no column of the exclusion
\* set is in the averaged record.
C16_NonNumericFallback ==
    Built =>
      \A p \in Paired :
        /\ \A c \in AveragedFields :
              PairNumbers(p, c) = <<>> =>
                /\ AveragedOf(p)[c].count = 0
                /\ AveragedOf(p)[c].sum =
                      IF PairNonNull(p, c) = <<>> THEN None
                      ELSE PairNonNull(p, c)[1]
        /\ PairCells(p, "pid") = <<p, p>>
        /\ AveragedOf(p).pid = p
        /\ DOMAIN AveragedOf(p) \cap ExcludedFields = {}

\* C16 witness: the pair is declared (1, 0); label 1 holds "Female" and
\* label 0 "Male", so the averaged gender is "Female"; the diastolic cell is
\* a string beside a missing cell, and the aortic cells are both missing.
C16_Witness ==
    /\ Built /\ 1 \in Paired
    /\ used_pairs[1] = <<1, 0>>
    /\ PairCells(1, "gender") = <<Female, Male>>
    /\ AveragedOf(1).gender.sum = Female
    /\ PairCells(1, "dia") = <<None, TextCell(3)>>
    /\ AveragedOf(1).dia.sum = TextCell(3)
    /\ AveragedOf(1).aosys.sum = None

\* -------------------------------------------------------------------- C17
\* save_to_excel is past the quality check.
Checked == pc = "saved"

\* The four checks, stated on the frame and the pairs.
SingleRecord(p) == Cardinality(RowsOf(p)) = 1

ClinicalContamination(p) ==
    \E i \in SpecialRows :
        /\ Row(df, i).pid = CLINICAL_REPORT_MESSAGE
        /\ Row(df, i).file[1] = p

ScanDateMismatch(p) ==
    /\ p \in Paired
    /\ LET d1 == to_datetime(PairCells(p, "date")[1])
           d2 == to_datetime(PairCells(p, "date")[2])
       IN d1 # None /\ d2 # None /\ d1 # d2

ExcessiveDisagreement(p, c) ==
    /\ p \in Paired
    /\ Len(PairNumbers(p, c)) = 2
    /\ Abs(PairCells(p, c)[1] - PairCells(p, c)[2]) > 5

\* The messages of the checks that fail for p.
FailingMessages(p) ==
    {m \in {SINGLE_FILE} : SingleRecord(p)}
    \cup {m \in {CLINICAL_UPLOADED} : ClinicalContamination(p)}
    \cup {m \in {DIFFERENT_DATES} : ScanDateMismatch(p)}
    \cup {DifferBy(c) : c \in {f \in {"sys", "dia", "aosys", "aodia"} :
                                  ExcessiveDisagreement(p, f)}}

\* C17: every subject with a regular row, and no one else, has exactly one
\* diagnostic; it is "Pass" exactly when none of the four checks fails, and
\* otherwise the list of one message for each failing check and nothing
\* else, each check being evaluated whatever the others give.
C17_OneDiagnosticPerSubject ==
    Checked =>
      /\ DOMAIN quality_checks = Subjects
      /\ \A p \in Subjects :
            /\ quality_checks[p] = <<PASS>> <=> FailingMessages(p) = {}
            /\ FailingMessages(p) # {} =>
                  /\ SeqRange(quality_checks[p]) = FailingMessages(p)
                  /\ Len(quality_checks[p]) = Cardinality(FailingMessages(p))

\* C17 witness: one subject fails two checks at once (the scan dates and the
\* systolic values of its pair), another only the single-record check.
C17_Witness ==
    /\ Checked
    /\ \E p \in Subjects :
          quality_checks[p] = <<DIFFERENT_DATES, DifferBy("sys")>>
    /\ \E p \in Subjects : quality_checks[p] = <<SINGLE_FILE>>

\* -------------------------------------------------------------------- C18
\* The diagnostic of p holds message m.
Reports(p, m) == m \in SeqRange(quality_checks[p])

\* C18: for each of the four cross-checked fields (peripheral systolic and
\* diastolic, aortic systolic and diastolic) the disagreement message of the
\* field is in the diagnostic exactly when the subject has a pair, both rows
\* hold a number in the field and the two numbers differ by more than 5: a
\* difference of exactly 5, or a missing or non-numeric side, gives none.
C18_DisagreementThreshold ==
    Checked =>
      \A p \in Subjects : \A c \in {"sys", "dia", "aosys", "aodia"} :
        Reports(p, DifferBy(c)) <=>
          /\ p \in Paired
          /\ IsNumber(PairCells(p, c)[1]) /\ IsNumber(PairCells(p, c)[2])
          /\ \/ PairCells(p, c)[1] - PairCells(p, c)[2] > 5
             \/ PairCells(p, c)[2] - PairCells(p, c)[1] > 5

\* C18 witness: systolic values 5 apart (no message), diastolic values 6
\* apart (a message), an aortic systolic cell that is not a number beside
\* 106 (no message), aortic diastolic values 5 apart (no message).
C18_Witness ==
    /\ Checked /\ 1 \in Paired
    /\ PairCells(1, "sys") = <<120, 125>>
    /\ PairCells(1, "dia") = <<86, 80>>
    /\ PairCells(1, "aosys") = <<TextCell(3), 106>>
    /\ PairCells(1, "aodia") = <<70, 75>>
    /\ quality_checks[1] = <<DifferBy("dia")>>

\* -------------------------------------------------------------------- C19
\* C19: the scan-date message is in the diagnostic exactly when the subject
\* has a pair, both scan dates of the pair parse, and they are two different
\* calendar days; the scan times play no part, and a date that does not
\* parse or is missing on either side gives no message.
C19_ScanDateMismatch ==
    Checked =>
      \A p \in Subjects :
        Reports(p, DIFFERENT_DATES) <=>
          /\ p \in Paired
          /\ to_datetime(PairCells(p, "date")[1]) # None
          /\ to_datetime(PairCells(p, "date")[2]) # None
          /\ to_datetime(PairCells(p, "date")[1])
                # to_datetime(PairCells(p, "date")[2])

\* C19 witness: the pair of one subject has two dates that parse to
\* different days and the message; a subject without a pair has none.
C19_Witness ==
    /\ Checked /\ 1 \in Paired
    /\ PairCells(1, "date") = <<1, 2>>
    /\ Reports(1, DIFFERENT_DATES)
    /\ 2 \in Subjects \ Paired /\ ~Reports(2, DIFFERENT_DATES)

\* -------------------------------------------------------------------- C20
\* C20: the clinical-report message is in the diagnostic of a subject
\* exactly when some special row classified as a clinical report comes from
\* a file whose name prefix is the subject's id, pair or no pair; an
\* unrecognized report with that prefix does not count.
C20_ClinicalContamination ==
    Checked =>
      \A p \in Subjects :
        Reports(p, CLINICAL_UPLOADED) <=>
          \E i \in SpecialRows :
            /\ Row(df, i).pid = CLINICAL_REPORT_MESSAGE
            /\ derive_patient_id(Row(df, i).file) = p

\* C20 witness: a subject without a pair has the message for a clinical
\* report under its id, and another subject has not.
C20_Witness ==
    /\ Checked
    /\ 1 \in Subjects \ Paired /\ Reports(1, CLINICAL_UPLOADED)
    /\ 2 \in Subjects /\ ~Reports(2, CLINICAL_UPLOADED)

\* -------------------------------------------------------------------- C21
\* The rows of the Averaged table for subject p, by position.
AveragedRowsOf(p) == {n \in 1 .. Len(averaged_df) : averaged_df[n].pid = p}

\* Row n of the Averaged table is a placeholder: "-" in every measurement
\* column.
IsPlaceholder(n) == \A c \in AveragedFields : averaged_df[n][c] = Dash

\* Subject p is shown as a single-record subject: nothing of it in the Kept
\* table, one row in the Averaged table, a placeholder whose diagnostic holds
\* the single-record message.
ShownAsSingle(p) ==
    /\ \A k \in 1 .. Len(kept_df) : kept_df[k].pid # p
    /\ Cardinality(AveragedRowsOf(p)) = 1
    /\ \A n \in AveragedRowsOf(p) :
          /\ IsPlaceholder(n)
          /\ SINGLE_FILE \in SeqRange(averaged_df[n].quality)

\* C21: a subject with exactly one eligible record has no record in the
\* Kept table and has one row in the Averaged table, a placeholder with "-"
\* in every measurement field and a diagnostic that includes "Only one file
\* was uploaded for this participant."
C21_SingleEligibleRecordPlaceholder ==
    Checked =>
      \A p \in Subjects : Cardinality(Eligible(p)) = 1 => ShownAsSingle(p)

\* -------------------------------------------------------------------- C22
\* C22: whatever the records and the override map, the Averaged table has
\* one averaged row for each subject with a chosen pair, one placeholder row
\* for each single-record subject and no other row; no subject id is in two
\* rows; each row has the diagnostic of its subject.
C22_AveragedTableComposition ==
    Checked =>
      /\ \A p \in DOMAIN used_pairs :
            \E n \in AveragedRowsOf(p) :
                \A c \in AveragedFields : averaged_df[n][c] = AveragedOf(p)[c]
      /\ \A p \in Subjects :
            SingleRecord(p) => \E n \in AveragedRowsOf(p) : IsPlaceholder(n)
      /\ \A n \in 1 .. Len(averaged_df) :
            /\ \/ averaged_df[n].pid \in DOMAIN used_pairs
               \/ averaged_df[n].pid \in Subjects /\ SingleRecord(averaged_df[n].pid)
            /\ averaged_df[n].pid \in DOMAIN quality_checks
            /\ averaged_df[n].quality = quality_checks[averaged_df[n].pid]
      /\ \A m, n \in 1 .. Len(averaged_df) :
            averaged_df[m].pid = averaged_df[n].pid => m = n

\* -------------------------------------------------------------------- C24
\* C24: whatever the records and the override map (entries of one label, of
\* two equal labels, of more than two among them), pair selection, averaging
\* and the quality check complete and return data: save_to_excel never ends
\* in an exception.
C24_NoErrorOutcome == pc # "error"

\* -------------------------------------------------------------------- C25
\* Frame g is frame f but for the kept flag: the same rows in the same
\* order, every other column as it was.
SameButKeptFlag(f, g) ==
    /\ Len(g) = Len(f)
    /\ \A k \in 1 .. Len(f) :
          /\ DOMAIN g[k] = DOMAIN f[k]
          /\ \A c \in DOMAIN f[k] \ {"analyed"} : g[k][c] = f[k][c]

AwaitingReview == main_pc \in {"choice", "overview"}

\* The reviewer closed the window without saving.
Abandoned == main_pc = "terminated"

\* save_to_excel has written its tables.
Exported == pc = "saved"

\* C23 as stated: when the reviewer abandons the manual-override step (closes
\* the mode popup or the Manual Overview without saving), the pipeline still
\* goes on and eventually exports, with the automatic pairs.
C23_AbandonedReviewStillExports == Abandoned ~> Exported

\* C23 amended: closing the mode popup or the Manual Overview ends the run:
\* nothing is exported then or later.  The Manual Overview is left only by
\* that or by a completed review, the mode popup only by that or by one of
\* its two buttons; and once main has its pairs the export does follow.
C23_AbandonedReviewEndsRun ==
    /\ [](Abandoned => [](Abandoned /\ ~Exported /\ pc = "main"))
    /\ [][/\ (main_pc = "overview" /\ main_pc' # "overview") =>
               \/ main_pc' = "terminated"
               \/ main_pc' = "returned" /\ completed'
          /\ (main_pc = "choice" /\ main_pc' # "choice") =>
               \/ main_pc' = "terminated"
               \/ main_pc' = "overview"
               \/ main_pc' = "save_to_excel" /\ manual_pairs' = auto_pairs]_vars
    /\ (main_pc = "save_to_excel") ~> Exported

\* C23 witness: the Manual Overview was open, with a selection changed, and
\* was closed: the run is over and save_to_excel was never called.
C23_Witness ==
    /\ Abandoned
    /\ overview_manual_pairs # <<>>
    /\ \E q \in DOMAIN overview_manual_pairs :
          Len(overview_manual_pairs[q]) < 2
    /\ pc = "main" /\ averaged_df = <<>>

\* -------------------------------------------------------------------- C26
\* The valid entries of a patient: the rows of the prepared frame that come
\* from a detailed report of that patient (clinical and unrecognized reports
\* give special rows; duplicates are gone).
ValidEntries(frame, p) ==
    {k \in 1 .. Len(frame) : frame[k].pid = p /\ ~frame[k].special}

\* The patients with more than two valid entries.
WithMoreThanTwo(frame) ==
    {p \in {frame[k].pid : k \in 1 .. Len(frame)} :
        Cardinality(ValidEntries(frame, p)) > 2}

C27_SelectionInvariant ==
    /\ [](main_pc \in {"overview", "returned"} =>
            \A q \in DOMAIN overview_manual_pairs :
               LET selection == overview_manual_pairs[q]
               IN /\ Len(selection) <= 2
                  /\ \A a, b \in 1 .. Len(selection) :
                        selection[a] = selection[b] => a = b
                  /\ \A a \in 1 .. Len(selection) :
                        /\ selection[a] \in Indices(prepared_df)
                        /\ Row(prepared_df, selection[a]).pid = q
                        /\ ~Row(prepared_df, selection[a]).special)
    /\ [][main_pc = "overview" /\ main_pc' = "overview" =>
            LET shown == manual_patients[current_index + 1]
                before == overview_manual_pairs[shown]
                after == overview_manual_pairs'[shown]
            IN /\ \A q \in DOMAIN overview_manual_pairs \ {shown} :
                     overview_manual_pairs'[q] = overview_manual_pairs[q]
               /\ Len(before) = 2 =>
                     \/ after = before
                     \/ after = <<before[1]>> \/ after = <<before[2]>>
          ]_vars

\* C27 witness: two rows are selected for a patient with a third row, which
\* is not selected: the selection differs from the one the window opened
\* with, so toggles have removed and added rows.
C27_Witness ==
    /\ main_pc = "overview"
    /\ \E q \in DOMAIN overview_manual_pairs :
          /\ Len(overview_manual_pairs[q]) = 2
          /\ Cardinality(ValidEntries(prepared_df, q)) = 3
          /\ overview_manual_pairs[q] #
                InitialSelection(prepared_df, auto_pairs, q)
          /\ SeqRange(overview_manual_pairs[q]) #
                SeqRange(InitialSelection(prepared_df, auto_pairs, q))

\* -------------------------------------------------------------------- C28
\* Every reviewed patient has exactly two rows selected.
EveryPatientHasTwo ==
    \A k \in 1 .. Len(manual_patients) :
       /\ manual_patients[k] \in DOMAIN overview_manual_pairs
       /\ Len(overview_manual_pairs[manual_patients[k]]) = 2

\* C28: the review becomes completed only by a step taken when every
\* reviewed patient has exactly two rows selected, and that step changes no
\* selection; while some patient has not, no step makes it completed.  The
\* mapping run() hands to main after a completed review has one entry for
\* every reviewed patient: that patient's two selected labels, in the order
\* they were selected.
C28_CompletionGuard ==
    /\ [][/\ completed' /\ ~completed =>
               /\ main_pc = "overview"
               /\ EveryPatientHasTwo
               /\ overview_manual_pairs' = overview_manual_pairs
          /\ main_pc = "overview" /\ ~EveryPatientHasTwo =>
               ~completed' /\ main_pc' # "returned"
         ]_vars
    /\ [](completed => main_pc \in {"returned", "save_to_excel"})
    /\ [](completed /\ main_pc = "save_to_excel" =>
            /\ DOMAIN manual_pairs = SeqRange(manual_patients)
            /\ \A q \in DOMAIN manual_pairs :
                  /\ Len(manual_pairs[q]) = 2
                  /\ manual_pairs[q] = overview_manual_pairs[q])

\* C28 witness: two patients were reviewed, the review was completed with a
\* selection that is not the automatic one, and main holds run()'s mapping.
C28_Witness ==
    /\ completed /\ main_pc = "save_to_excel"
    /\ Len(manual_patients) = 2
    /\ manual_pairs # auto_pairs
    /\ \E q \in DOMAIN manual_pairs : manual_pairs[q][1] > manual_pairs[q][2]

\* -------------------------------------------------------------------- C29
\* C29: while the Manual Overview is open the position of the patient shown
\* is within 0 .. (number of reviewed patients - 1); a step that moves it
\* moves it by one and changes no selection, so Previous at the first patient
\* and Next at the last one change nothing.
C29_NavigationBounds ==
    /\ [](main_pc \in {"overview", "returned"} =>
            current_index \in 0 .. (Len(manual_patients) - 1))
    /\ [][main_pc = "overview" /\ current_index' # current_index =>
            /\ current_index' \in {current_index - 1, current_index + 1}
            /\ current_index' \in 0 .. (Len(manual_patients) - 1)
            /\ overview_manual_pairs' = overview_manual_pairs
            /\ UNCHANGED <<completed, main_pc, manual_pairs>>
         ]_vars

\* C29 witness: the last of two reviewed patients is shown, reached by Next
\* after the first patient's selection was changed.
C29_Witness ==
    /\ main_pc = "overview"
    /\ Len(manual_patients) = 2
    /\ current_index = 1
    /\ overview_manual_pairs[manual_patients[1]] #
          InitialSelection(prepared_df, auto_pairs, manual_patients[1])

\* -------------------------------------------------------------------- C30
\* What _build_analyzed_data returns for the records with no override at all.
WithoutOverrides == build_analyzed_data(prepare_dataframe(records), mode, <<>>)

\* C30: when main hands the automatic pairs to save_to_excel as the override
\* map ("Use Auto Method", or nobody to review), the frame save_to_excel
\* prepares from the same records is the frame main prepared (each label the
\* same record), and the pairs used, the kept labels and the averaged
\* records are those of a run with no overrides.
C30_AutoPairsFixedPoint ==
    (main_pc = "save_to_excel" /\ manual_pairs = auto_pairs) =>
       /\ pc \in {"prepared", "built"} => df = prepared_df
       /\ pc = "saved" => SameButKeptFlag(prepared_df, df)
       /\ pc \in {"built", "saved"} =>
             /\ used_pairs = auto_pairs
             /\ used_pairs = WithoutOverrides.used_pairs
             /\ kept_indices = WithoutOverrides.kept_indices
             /\ analyzed_records = WithoutOverrides.analyzed_records

\* C30 witness: the reviewer chose "Use Auto Method" with a patient of three
\* scans whose automatic pair is not the first two rows, a clinical report is
\* among the records, and the export is done.
C30_Witness ==
    /\ main_pc = "save_to_excel" /\ pc = "saved"
    /\ manual_patients # <<>> /\ ~completed
    /\ manual_pairs = auto_pairs
    /\ \E k \in 1 .. Len(df) : df[k].special
    /\ \E q \in DOMAIN used_pairs :
          /\ q \in SeqRange(manual_patients)
          /\ used_pairs[q] # SubSeq(patient_rows(df, q), 1, 2)

====
